---- MODULE Spec2Model ----
(***************************************************************************)
(* Model of lib/ansible/modules/crypto/luks_device.py.                     *)
(*                                                                         *)
(* The system state is the set of block devices with their LUKS header     *)
(* (formatted, UUID, pass-phrases that unlock it) and the device-mapper    *)
(* mappings of type crypt.  A run of the module is run_module(): one       *)
(* action per block of run_module, in the order of the code.  Every        *)
(* external command the module starts may return a non-zero exit code.     *)
(***************************************************************************)
EXTENDS Naturals, Sequences, FiniteSets, TLC

(* ------------------------------ bounds -------------------------------- *)

NumNames == 1
MaxHistory == 2

None == "None"

Devices == {"/dev/loop0", "/dev/loop1"}
\* the order in which lsblk lists the devices
DeviceOrder == <<"/dev/loop0", "/dev/loop1">>
UserNames == {"mycrypt" \o ToString(i) : i \in 1..NumNames}
Keyfiles == {"/vault/keyfile"}
\* one UUID per LUKS header that can exist at a time
UUIDs == {"c1da9a58", "6ab008b4"}

States == {"present", "absent", "opened", "closed"}

\* module_args of run_module: every option but state defaults to None
Params ==
    [state : States,
     device : Devices \cup {None},
     name : UserNames \cup {None},
     keyfile : Keyfiles \cup {None},
     new_keyfile : Keyfiles \cup {None},
     remove_keyfile : Keyfiles \cup {None}]

VARIABLES
    formatted,   \* device -> BOOLEAN: the device carries a LUKS header
    uuid,        \* device -> UUID of the LUKS header, "" without one
    keys,        \* device -> set of keyfiles that unlock the header
    mapname,     \* device -> name of its crypt mapping, None when closed
    params,      \* module.params of the current run
    pc,          \* position of the current run in run_module
    result,      \* the result dict and the way the run ended
    cmds,        \* mutating commands started in the current run, in order
    toolFailed,  \* some command of the current run returned non-zero
    start,       \* the system state when the current run started
    history,     \* the runs that led, back to back, to the current run
    array,       \* vexata: what the storage array holds for the module
    vx,          \* vexata: the current run of vexata_snap / vexata_sg
    hc           \* hcloud: the servers, the options and the inventory

sys == <<formatted, uuid, keys, mapname>>
\* the state of the vexata modules and of the hcloud plugin, which
\* luks_device never touches
others == <<array, vx, hc>>
vars == <<formatted, uuid, keys, mapname, params, pc, result, cmds,
          toolFailed, start, history, array, vx, hc>>

(* ------------------------- external tools ----------------------------- *)

\* a command of the list that changes the system when it succeeds
Cmd(tool, device, name) == [tool |-> tool, device |-> device, name |-> name]

\* the mapping names that are live
ActiveNames == {mapname[d] : d \in Devices} \ {None}

\* 'lsblk <device> -nlo type,name': one line for the device and one for its
\* crypt mapping; run_command drops a None argument, and lsblk without a
\* device lists every device
LsblkLines(d) ==
    <<[type |-> "loop", name |-> d]>> \o
    (IF mapname[d] # None THEN <<[type |-> "crypt", name |-> mapname[d]]>>
     ELSE <<>>)

RECURSIVE LsblkAll(_)
LsblkAll(i) ==
    IF i > Len(DeviceOrder) THEN <<>>
    ELSE LsblkLines(DeviceOrder[i]) \o LsblkAll(i + 1)

LsblkTypeName(device) ==
    IF device = None THEN LsblkAll(1) ELSE LsblkLines(device)

\* LUKS_NAME_REGEX.search(stdout): the name token of the first line whose
\* type token is crypt; m is None (AttributeError) without such a line
LuksNameRegexSearch(lines) ==
    LET hits == {i \in 1..Len(lines) : lines[i].type = "crypt"}
    IN IF hits = {} THEN None
       ELSE lines[CHOOSE i \in hits : \A j \in hits : i <= j].name

\* get_container_name_by_device once lsblk returned 0
ContainerNameByDevice(device) == LuksNameRegexSearch(LsblkTypeName(device))

\* get_container_device_by_name: 'cryptsetup status <name>' returns non-zero
\* for a name that is not mapped (None), else its 'device:' line is parsed
ContainerDeviceByName(name) ==
    IF name \in ActiveNames
    THEN CHOOSE d \in Devices : mapname[d] = name
    ELSE None

\* is_luks: 'cryptsetup isLuks <device>' returned 0
IsLuks(device) == formatted[device]

\* generate_luks_name that names the mapping after the device
GenerateLuksNameByPath(device) == "luks-" \o device

\* generate_luks_name once lsblk returned 0: 'luks-%s' % stdout.strip()
GenerateLuksName(device) == "luks-" \o uuid[device]

\* 'cryptsetup luksFormat -q <device> <keyfile>' can return 0: the device
\* is not in use by a mapping
FormatCanSucceed(device) == mapname[device] = None

\* 'cryptsetup --key-file <keyfile> open --type luks <device> <name>' can
\* return 0: a LUKS header the keyfile unlocks, on a device that is not
\* mapped yet, and a name that is free
OpenCanSucceed(device, keyfile, name) ==
    /\ formatted[device]
    /\ keyfile \in keys[device]
    /\ mapname[device] = None
    /\ name \notin ActiveNames

\* 'cryptsetup close <name>' can return 0: the name is a live mapping
\* (run_command drops a None name, and cryptsetup then lacks its argument)
CloseCanSucceed(name) == name # None /\ name \in ActiveNames

\* 'cryptsetup luksAddKey <device> <new_keyfile> --key-file <keyfile>'
AddKeyCanSucceed(device, keyfile) ==
    formatted[device] /\ keyfile \in keys[device]

\* 'cryptsetup luksRemoveKey <device> -q --key-file <keyfile>'
RemoveKeyCanSucceed(device, keyfile) ==
    formatted[device] /\ keyfile \in keys[device]

\* 'wipefs --all <device>' can return 0: the device is not held by a mapping
WipeCanSucceed(device) == mapname[device] = None

\* the UUIDs a new header can get: none that another header carries
FreshUUIDs == UUIDs \ {uuid[d] : d \in Devices}

(* ----------------------------- run_module ----------------------------- *)

\* a result that starts out as changed
InitialResultChanged == [status |-> "running", msg |-> "", changed |-> TRUE,
                         name |-> None]

InitialResult == [status |-> "running", msg |-> "", changed |-> FALSE,
                  name |-> None]

DefaultParams == [state |-> "present", device |-> None, name |-> None,
                  keyfile |-> None, new_keyfile |-> None,
                  remove_keyfile |-> None]

Snapshot == [formatted |-> formatted, uuid |-> uuid, keys |-> keys,
             mapname |-> mapname]

(* ------------------- vexata_snap, vexata_sg, hcloud: values ------------ *)

\* the two snapshot modules; vexata_sg is vexata_snap with volume groups
\* for volumes and snapshot groups for snapshots
Modules == {"vexata_snap", "vexata_sg"}

\* what the array holds for a module: the parent (the volume / volume group
\* named by the task) exists, the named snapshot of the parent exists, the
\* volumes made by cloning the snapshot, the parent holds the snapshot's data
EmptyArray == [parent |-> FALSE, snap |-> FALSE, clones |-> {},
               restored |-> FALSE]

VxInitialResult == [status |-> "running", changed |-> FALSE, msg |-> ""]

\* no run of a vexata module has started
VxIdle == [module |-> "vexata_snap",
           params |-> [state |-> "present", target |-> None],
           check_mode |-> FALSE, pc |-> "idle",
           volume |-> FALSE, snap |-> FALSE,
           calls |-> <<>>, result |-> VxInitialResult,
           callFailed |-> FALSE, start |-> EmptyArray, prev |-> <<>>]

\* InventoryModule before parse(): no servers, no options, an empty
\* inventory (groups holds the pairs <<group, host>>)
HcIdle == [pc |-> "idle", api |-> <<>>, servers |-> <<>>,
           options |-> [locations |-> {}, types |-> {}, images |-> {}],
           hosts |-> {}, groups |-> {}, status |-> "running"]

\* no run of luks_device has started; every device is blank
LuksIdle ==
    /\ formatted = [d \in Devices |-> FALSE]
    /\ uuid = [d \in Devices |-> ""]
    /\ keys = [d \in Devices |-> {}]
    /\ mapname = [d \in Devices |-> None]
    /\ params = DefaultParams
    /\ pc = "idle"
    /\ result = InitialResult
    /\ cmds = <<>>
    /\ toolFailed = FALSE
    /\ start = Snapshot
    /\ history = <<>>

Init ==
    /\ LuksIdle
    /\ array = EmptyArray
    /\ vx = VxIdle
    /\ hc = HcIdle

\* the texts of the ValueErrors of Handler and CryptHandler
ErrGenerateName == "Error while generating LUKS name"
ErrObtainName == "Error while obtaining LUKS name"
ErrCreate == "Error while creating LUKS"
ErrOpen == "Error while opening LUKS container"
ErrClose == "Error while closing LUKS container"
ErrWipe == "Error while wiping luks container"
ErrAddKey == "Error while adding new LUKS key"
ErrRemoveKey == "Error while removing LUKS key"

\* msg="luks_device error: %s" % e, of the except clauses of run_module
LuksDeviceError(e) == "luks_device error: " \o e

\* fail_json that records the fault and lets run_module go on
FailJsonReturns(msg) ==
    /\ result' = [result EXCEPT !.status = "failed", !.msg = msg]
    /\ pc' = pc

\* module.fail_json(msg=...): the run ends with a structured fault
FailJson(msg) ==
    /\ result' = [result EXCEPT !.status = "failed", !.msg = msg]
    /\ pc' = "done"

\* the ValueError of get_container_name_by_device, raised inside a condition
\* that run_module calls outside its try blocks
Uncaught ==
    /\ result' = [result EXCEPT !.status = "exception", !.msg = ErrObtainName]
    /\ pc' = "done"

\* what a finished run leaves for the task that follows it in the play
Summary == [params |-> params, changed |-> result.changed,
            name |-> result.name, cmds |-> cmds, start |-> start]

Begin(p) ==
    /\ params' = p
    /\ pc' = "create"
    /\ result' = InitialResult
    /\ cmds' = <<>>
    /\ toolFailed' = FALSE
    /\ start' = Snapshot
    /\ UNCHANGED <<sys, others>>

\* run_module is started with any parameters
StartRun ==
    /\ pc \in {"idle", "done"}
    /\ \E p \in Params : Begin(p)
    /\ history' = <<>>

\* the tasks of a play that manages containers without changing their keys
PlayParams == {p \in Params : p.new_keyfile = None /\ p.remove_keyfile = None}

\* the first luks_device task of a play
StartPlay ==
    /\ pc \in {"idle", "done"}
    /\ \E p \in PlayParams : Begin(p)
    /\ history' = <<>>

\* the next luks_device task of the play, on the same device with the same
\* keyfile; a play goes on to its next task only after a task that succeeded
FollowUpRun ==
    /\ pc = "done"
    /\ result.status = "ok"
    /\ Len(history) < MaxHistory
    /\ \E p \in PlayParams :
        /\ p.device = params.device
        /\ p.keyfile = params.keyfile
        /\ Begin(p)
    /\ history' = Append(history, Summary)

\* luks_create without the isLuks probe
luks_create_unprobed ==
    /\ params.device # None
    /\ params.keyfile # None
    /\ params.state \in {"present", "opened", "closed"}

\* ConditionsHandler.luks_create
luks_create ==
    /\ params.device # None
    /\ params.keyfile # None
    /\ params.state \in {"present", "opened", "closed"}
    /\ ~IsLuks(params.device)

\* run_module, "luks create"
LuksCreate ==
    /\ pc = "create"
    /\ IF luks_create
       THEN /\ cmds' = Append(cmds, Cmd("luksFormat", params.device, None))
            /\ \/ /\ FormatCanSucceed(params.device)
                  /\ \E u \in FreshUUIDs :
                        uuid' = [uuid EXCEPT ![params.device] = u]
                  /\ formatted' = [formatted EXCEPT ![params.device] = TRUE]
                  /\ keys' = [keys EXCEPT ![params.device] = {params.keyfile}]
                  /\ result' = [result EXCEPT !.changed = TRUE]
                  /\ pc' = "opened_name"
                  /\ UNCHANGED <<mapname, toolFailed>>
               \/ /\ toolFailed' = TRUE
                  /\ FailJson(LuksDeviceError(ErrCreate))
                  /\ UNCHANGED sys
       ELSE /\ pc' = "opened_name"
            /\ UNCHANGED <<sys, result, cmds, toolFailed>>
    /\ UNCHANGED <<params, start, history, others>>

\* the ways a condition of ConditionsHandler ends: it returns a value, it
\* calls fail_json, or a ValueError of a probe leaves it
Return(v) == [kind |-> "return", value |-> v]
Fault(msg) == [kind |-> "fail_json", value |-> msg]
Raise == [kind |-> "raise", value |-> ErrObtainName]

\* opened_luks_name that does not look for an existing mapping
opened_luks_name_unprobed(lsblkOk) == Return(None)

\* opened_luks_name that adopts the existing mapping whatever its name
opened_luks_name_unchecked(lsblkOk) ==
    IF params.state # "opened" THEN Return(None)
    ELSE IF ~lsblkOk THEN Raise
    ELSE Return(ContainerNameByDevice(params.device))

\* opened_luks_name that returns the name only to compare it with 'name'
opened_luks_name_unreported(lsblkOk) ==
    IF params.state # "opened" THEN Return(None)
    ELSE IF ~lsblkOk THEN Raise
    ELSE LET name == ContainerNameByDevice(params.device)
         IN IF name = None \/ params.name = None THEN Return(None)
            ELSE IF name # params.name
                 THEN Fault("already opened under different name")
            ELSE Return(name)

\* ConditionsHandler.opened_luks_name; lsblkOk: its lsblk call returns 0
opened_luks_name(lsblkOk) ==
    IF params.state # "opened" THEN Return(None)
    ELSE IF ~lsblkOk THEN Raise
    ELSE LET name == ContainerNameByDevice(params.device)
         IN IF name = None THEN Return(None)
            ELSE IF params.name = None THEN Return(name)
            ELSE IF name # params.name
                 THEN Fault("already opened under different name")
            ELSE Return(name)

\* run_module, "luks open": name = conditions.opened_luks_name()
OpenedName ==
    /\ pc = "opened_name"
    /\ \E lsblkOk \in BOOLEAN :
        LET r == opened_luks_name(lsblkOk)
        IN CASE r.kind = "raise" ->
                  /\ Uncaught
                  /\ toolFailed' = TRUE
             [] r.kind = "fail_json" ->
                  /\ FailJson(r.value)
                  /\ UNCHANGED toolFailed
             [] r.kind = "return" ->
                  /\ result' = IF r.value # None
                               THEN [result EXCEPT !.name = r.value]
                               ELSE result
                  /\ pc' = "open"
                  /\ UNCHANGED toolFailed
    /\ UNCHANGED <<sys, params, cmds, start, history, others>>

\* luks_open that never asks for the open
luks_open_never(lsblkOk) == Return(FALSE)

\* luks_open that does not ask for a keyfile
luks_open_without_keyfile(lsblkOk) ==
    IF \/ params.device = None
       \/ params.state # "opened"
    THEN Return(FALSE)
    ELSE LET r == opened_luks_name(lsblkOk)
         IN IF r.kind = "return" THEN Return(r.value = None) ELSE r

\* ConditionsHandler.luks_open
luks_open(lsblkOk) ==
    IF \/ params.device = None
       \/ params.keyfile = None
       \/ params.state # "opened"
    THEN Return(FALSE)
    ELSE LET r == opened_luks_name(lsblkOk)
         IN IF r.kind = "return" THEN Return(r.value = None) ELSE r

\* run_module, "luks open": the open block
LuksOpen ==
    /\ pc = "open"
    /\ \E lsblkOk \in BOOLEAN, uuidOk \in BOOLEAN :
        LET r == luks_open(lsblkOk)
            name == IF params.name = None
                    THEN GenerateLuksName(params.device)
                    ELSE params.name
        IN CASE r.kind = "raise" ->
                  /\ Uncaught
                  /\ toolFailed' = TRUE
                  /\ UNCHANGED <<sys, cmds>>
             [] r.kind = "fail_json" ->
                  /\ FailJson(r.value)
                  /\ UNCHANGED <<sys, cmds, toolFailed>>
             [] r.kind = "return" /\ ~r.value ->
                  /\ pc' = "close"
                  /\ UNCHANGED <<sys, cmds, toolFailed, result>>
             [] r.kind = "return" /\ r.value ->
                  IF params.name = None /\ ~uuidOk
                  THEN \* generate_luks_name raises, caught at line 453
                       /\ FailJson(LuksDeviceError(ErrGenerateName))
                       /\ toolFailed' = TRUE
                       /\ UNCHANGED <<sys, cmds>>
                  ELSE /\ cmds' = Append(cmds, Cmd("open", params.device, name))
                       /\ \/ /\ OpenCanSucceed(params.device, params.keyfile, name)
                             /\ mapname' = [mapname EXCEPT ![params.device] = name]
                             /\ result' = [result EXCEPT !.name = name,
                                                         !.changed = TRUE]
                             /\ pc' = "close"
                             /\ UNCHANGED <<formatted, uuid, keys, toolFailed>>
                          \/ /\ toolFailed' = TRUE
                             /\ FailJson(LuksDeviceError(ErrOpen))
                             /\ UNCHANGED sys
    /\ UNCHANGED <<params, start, history, others>>

\* Handler.generate_luks_name on the output of a UUID probe that returned 0
\* (the output is given stripped)
GenerateLuksNameFrom(stdout) == "luks-" \o stdout

\* the open block of run_module when 'lsblk -n <device> -o UUID' returns 0
\* with an empty UUID column (lsblk has no UUID on record for the device):
\* generate_luks_name does not raise, and the open tool is started
LuksOpenNoUuid ==
    /\ pc = "open"
    /\ params.name = None
    /\ LET r == luks_open(TRUE)
           name == GenerateLuksNameFrom("")
       IN /\ r.kind = "return" /\ r.value
          /\ cmds' = Append(cmds, Cmd("open", params.device, name))
          /\ \/ /\ OpenCanSucceed(params.device, params.keyfile, name)
                /\ mapname' = [mapname EXCEPT ![params.device] = name]
                /\ result' = [result EXCEPT !.name = name, !.changed = TRUE]
                /\ pc' = "close"
                /\ UNCHANGED <<formatted, uuid, keys, toolFailed>>
             \/ /\ toolFailed' = TRUE
                /\ FailJson(LuksDeviceError(ErrOpen))
                /\ UNCHANGED sys
    /\ UNCHANGED <<params, start, history, others>>

\* luks_close that takes every identified container for an open one
luks_close_always(lsblkOk) ==
    IF \/ (params.name = None /\ params.device = None)
       \/ params.state # "closed"
    THEN Return(FALSE)
    ELSE Return(TRUE)

\* ConditionsHandler.luks_close; lsblkOk: its lsblk call returns 0
luks_close(lsblkOk) ==
    IF \/ (params.name = None /\ params.device = None)
       \/ params.state # "closed"
    THEN Return(FALSE)
    ELSE IF params.device # None /\ ~lsblkOk THEN Raise
    ELSE LET byDevice == ContainerNameByDevice(params.device) # None
             byName == ContainerDeviceByName(params.name) # None
         IN \* the assignment under 'name is not None' is the later one
            IF params.name # None THEN Return(byName) ELSE Return(byDevice)

\* the mappings after 'cryptsetup close <name>' returned 0
Unmapped(m, name) == [d \in Devices |-> IF m[d] = name THEN None ELSE m[d]]

\* run_module, "luks close"
LuksClose ==
    /\ pc = "close"
    /\ \E lsblkOk \in BOOLEAN, lsblkOk2 \in BOOLEAN :
        LET r == luks_close(lsblkOk)
            name == IF params.device # None
                    THEN ContainerNameByDevice(params.device)
                    ELSE params.name
        IN CASE r.kind = "raise" ->
                  /\ Uncaught
                  /\ toolFailed' = TRUE
                  /\ UNCHANGED <<sys, cmds>>
             [] r.kind = "return" /\ ~r.value ->
                  /\ pc' = "add_key"
                  /\ UNCHANGED <<sys, cmds, toolFailed, result>>
             [] r.kind = "return" /\ r.value ->
                  IF params.device # None /\ ~lsblkOk2
                  THEN \* get_container_name_by_device raises, caught at 470
                       /\ FailJson(LuksDeviceError(ErrObtainName))
                       /\ toolFailed' = TRUE
                       /\ UNCHANGED <<sys, cmds>>
                  ELSE /\ cmds' = Append(cmds, Cmd("close", None, name))
                       /\ \/ /\ CloseCanSucceed(name)
                             /\ mapname' = Unmapped(mapname, name)
                             /\ result' = [result EXCEPT !.changed = TRUE]
                             /\ pc' = "add_key"
                             /\ UNCHANGED <<formatted, uuid, keys, toolFailed>>
                          \/ /\ toolFailed' = TRUE
                             /\ FailJson(LuksDeviceError(ErrClose))
                             /\ UNCHANGED sys
    /\ UNCHANGED <<params, start, history, others>>

\* luks_add_key that first looks whether the key is registered already
luks_add_key_idempotent ==
    IF \/ params.device = None
       \/ params.keyfile = None
       \/ params.new_keyfile = None
    THEN Return(FALSE)
    ELSE IF params.state = "absent"
         THEN Fault("Contradiction in setup: add a key to absent LUKS")
         ELSE Return(params.new_keyfile \notin keys[params.device])

\* luks_add_key without the check of state=absent
luks_add_key_unchecked ==
    Return(/\ params.device # None
           /\ params.keyfile # None
           /\ params.new_keyfile # None)

\* ConditionsHandler.luks_add_key
luks_add_key ==
    IF \/ params.device = None
       \/ params.keyfile = None
       \/ params.new_keyfile = None
    THEN Return(FALSE)
    ELSE IF params.state = "absent"
         THEN Fault("Contradiction in setup: add a key to absent LUKS")
         ELSE Return(TRUE)

\* the add-key block with a retry: a failed luksAddKey is started again
LuksAddKeyRetried ==
    /\ pc = "add_key"
    /\ LET r == luks_add_key
       IN CASE r.kind = "fail_json" ->
                 /\ FailJson(r.value)
                 /\ UNCHANGED <<sys, cmds, toolFailed>>
            [] r.kind = "return" /\ ~r.value ->
                 /\ pc' = "remove_key"
                 /\ UNCHANGED <<sys, cmds, toolFailed, result>>
            [] r.kind = "return" /\ r.value ->
                 /\ cmds' = Append(cmds, Cmd("luksAddKey", params.device, None))
                 /\ \/ /\ AddKeyCanSucceed(params.device, params.keyfile)
                       /\ keys' = [keys EXCEPT ![params.device] =
                                       @ \cup {params.new_keyfile}]
                       /\ result' = [result EXCEPT !.changed = TRUE]
                       /\ pc' = "remove_key"
                       /\ UNCHANGED <<formatted, uuid, mapname, toolFailed>>
                    \/ /\ toolFailed' = TRUE
                       /\ UNCHANGED <<sys, result, pc>>
    /\ UNCHANGED <<params, start, history, others>>

\* run_module, "luks add key"
LuksAddKey ==
    /\ pc = "add_key"
    /\ LET r == luks_add_key
       IN CASE r.kind = "fail_json" ->
                 /\ FailJson(r.value)
                 /\ UNCHANGED <<sys, cmds, toolFailed>>
            [] r.kind = "return" /\ ~r.value ->
                 /\ pc' = "remove_key"
                 /\ UNCHANGED <<sys, cmds, toolFailed, result>>
            [] r.kind = "return" /\ r.value ->
                 /\ cmds' = Append(cmds, Cmd("luksAddKey", params.device, None))
                 /\ \/ /\ AddKeyCanSucceed(params.device, params.keyfile)
                       /\ keys' = [keys EXCEPT ![params.device] =
                                       @ \cup {params.new_keyfile}]
                       /\ result' = [result EXCEPT !.changed = TRUE]
                       /\ pc' = "remove_key"
                       /\ UNCHANGED <<formatted, uuid, mapname, toolFailed>>
                    \/ /\ toolFailed' = TRUE
                       /\ FailJson(LuksDeviceError(ErrAddKey))
                       /\ UNCHANGED sys
    /\ UNCHANGED <<params, start, history, others>>

\* luks_remove_key that refuses to remove the last key of the device
luks_remove_key_keeps_last ==
    IF \/ params.device = None
       \/ params.remove_keyfile = None
    THEN Return(FALSE)
    ELSE IF params.state = "absent"
         THEN Fault("Contradiction in setup: remove a key from absent LUKS")
         ELSE Return(keys[params.device] \ {params.remove_keyfile} # {})

\* luks_remove_key without the check of state=absent
luks_remove_key_unchecked ==
    IF \/ params.device = None
       \/ params.remove_keyfile = None
    THEN Return(FALSE)
    ELSE Return(TRUE)

\* ConditionsHandler.luks_remove_key
luks_remove_key ==
    IF \/ params.device = None
       \/ params.remove_keyfile = None
    THEN Return(FALSE)
    ELSE IF params.state = "absent"
         THEN Fault("Contradiction in setup: remove a key from absent LUKS")
         ELSE Return(TRUE)

\* run_module, "luks remove key"
LuksRemoveKey ==
    /\ pc = "remove_key"
    /\ LET r == luks_remove_key
       IN CASE r.kind = "fail_json" ->
                 /\ FailJson(r.value)
                 /\ UNCHANGED <<sys, cmds, toolFailed>>
            [] r.kind = "return" /\ ~r.value ->
                 /\ pc' = "remove"
                 /\ UNCHANGED <<sys, cmds, toolFailed, result>>
            [] r.kind = "return" /\ r.value ->
                 /\ cmds' = Append(cmds,
                                   Cmd("luksRemoveKey", params.device, None))
                 /\ \/ /\ RemoveKeyCanSucceed(params.device,
                                              params.remove_keyfile)
                       /\ keys' = [keys EXCEPT ![params.device] =
                                       @ \ {params.remove_keyfile}]
                       /\ result' = [result EXCEPT !.changed = TRUE]
                       /\ pc' = "remove"
                       /\ UNCHANGED <<formatted, uuid, mapname, toolFailed>>
                    \/ /\ toolFailed' = TRUE
                       /\ FailJson(LuksDeviceError(ErrRemoveKey))
                       /\ UNCHANGED sys
    /\ UNCHANGED <<params, start, history, others>>

\* ConditionsHandler.luks_remove
luks_remove ==
    /\ params.device # None
    /\ params.state = "absent"
    /\ IsLuks(params.device)

\* run_luks_remove that wipes before it closes
RemoveCmdsWipeFirst(device) ==
    LET name == ContainerNameByDevice(device)
    IN <<Cmd("wipefs", device, None)>> \o
       (IF name # None THEN <<Cmd("close", None, name)>> ELSE <<>>)

\* CryptHandler.run_luks_remove: the commands it starts when lsblk returned
\* 0, the close (if any) first
RemoveCmds(device) ==
    LET name == ContainerNameByDevice(device)
    IN (IF name # None THEN <<Cmd("close", None, name)>> ELSE <<>>)
       \o <<Cmd("wipefs", device, None)>>

\* the remove block with a best-effort close: when the close fails, wipefs
\* is started all the same (and fails on the busy device)
LuksRemoveBestEffort ==
    /\ pc = "remove"
    /\ IF luks_remove
       THEN LET device == params.device
                name == ContainerNameByDevice(device)
                planned == RemoveCmds(device)
                closed == IF name # None THEN Unmapped(mapname, name)
                          ELSE mapname
            IN \/ /\ toolFailed' = TRUE
                  /\ FailJson(LuksDeviceError(ErrObtainName))
                  /\ UNCHANGED <<sys, cmds>>
               \/ /\ name # None
                  /\ cmds' = cmds \o planned
                  /\ toolFailed' = TRUE
                  /\ FailJson(LuksDeviceError(ErrWipe))
                  /\ UNCHANGED sys
               \/ /\ name # None => CloseCanSucceed(name)
                  /\ cmds' = cmds \o planned
                  /\ mapname' = closed
                  /\ toolFailed' = TRUE
                  /\ FailJson(LuksDeviceError(ErrWipe))
                  /\ UNCHANGED <<formatted, uuid, keys>>
               \/ /\ name # None => CloseCanSucceed(name)
                  /\ closed[device] = None
                  /\ cmds' = cmds \o planned
                  /\ mapname' = closed
                  /\ formatted' = [formatted EXCEPT ![device] = FALSE]
                  /\ uuid' = [uuid EXCEPT ![device] = ""]
                  /\ keys' = [keys EXCEPT ![device] = {}]
                  /\ result' = [result EXCEPT !.changed = TRUE]
                  /\ pc' = "exit"
                  /\ UNCHANGED toolFailed
       ELSE /\ pc' = "exit"
            /\ UNCHANGED <<sys, result, cmds, toolFailed>>
    /\ UNCHANGED <<params, start, history, others>>

\* run_module, "luks remove"
LuksRemove ==
    /\ pc = "remove"
    /\ IF luks_remove
       THEN LET device == params.device
                name == ContainerNameByDevice(device)
                planned == RemoveCmds(device)
                closed == IF name # None THEN Unmapped(mapname, name)
                          ELSE mapname
            IN \/ \* lsblk fails: ValueError, caught at line 503
                  /\ toolFailed' = TRUE
                  /\ FailJson(LuksDeviceError(ErrObtainName))
                  /\ UNCHANGED <<sys, cmds>>
               \/ \* run_luks_close fails; wipefs is not started
                  /\ name # None
                  /\ cmds' = Append(cmds, planned[1])
                  /\ toolFailed' = TRUE
                  /\ FailJson(LuksDeviceError(ErrClose))
                  /\ UNCHANGED sys
               \/ \* wipefs fails after the close (if any) succeeded
                  /\ name # None => CloseCanSucceed(name)
                  /\ cmds' = cmds \o planned
                  /\ mapname' = closed
                  /\ toolFailed' = TRUE
                  /\ FailJson(LuksDeviceError(ErrWipe))
                  /\ UNCHANGED <<formatted, uuid, keys>>
               \/ /\ name # None => CloseCanSucceed(name)
                  /\ closed[device] = None   \* WipeCanSucceed after the close
                  /\ cmds' = cmds \o planned
                  /\ mapname' = closed
                  /\ formatted' = [formatted EXCEPT ![device] = FALSE]
                  /\ uuid' = [uuid EXCEPT ![device] = ""]
                  /\ keys' = [keys EXCEPT ![device] = {}]
                  /\ result' = [result EXCEPT !.changed = TRUE]
                  /\ pc' = "exit"
                  /\ UNCHANGED toolFailed
       ELSE /\ pc' = "exit"
            /\ UNCHANGED <<sys, result, cmds, toolFailed>>
    /\ UNCHANGED <<params, start, history, others>>

\* run_module, module.exit_json(**result)
ExitJson ==
    /\ pc = "exit"
    /\ result' = [result EXCEPT !.status = "ok"]
    /\ pc' = "done"
    /\ UNCHANGED <<sys, params, cmds, toolFailed, start, history, others>>

Run ==
    \/ LuksCreate
    \/ OpenedName
    \/ LuksOpen
    \/ LuksClose
    \/ LuksAddKey
    \/ LuksRemoveKey
    \/ LuksRemove
    \/ ExitJson

\* single runs of the module, with every combination of parameters
Next == StartRun \/ Run

Spec == Init /\ [][Next]_vars

\* plays: up to MaxHistory + 1 runs back to back
NextPlay == StartPlay \/ FollowUpRun \/ Run

SpecPlay == Init /\ [][NextPlay]_vars

\* single runs in an environment where the UUID probe may print no UUID
NextNoUuid == StartRun \/ Run \/ LuksOpenNoUuid

SpecNoUuid == Init /\ [][NextNoUuid]_vars

(* ----------------------- vexata_snap, vexata_sg ----------------------- *)

VxStates == {"present", "absent", "clone", "restore"}
\* the 'target' option: not given, empty, or the name of the new volume
Targets == {None, "", "clone1"}
VxParams == [state : VxStates, target : Targets]

\* the array calls of vexata_snap, by what they do
SnapCalls == [list_parents |-> "list_volumes",
              list_snaps |-> "list_volsnaps",
              create |-> "create_volsnap",
              delete |-> "delete_volsnap",
              clone |-> "clone_volsnap_to_new_volume",
              restore |-> "restore_volume_from_volsnap"]

\* the array calls of vexata_sg
SgCalls == [list_parents |-> "list_vgs",
            list_snaps |-> "list_vgsnaps",
            create |-> "create_vgsnap",
            delete |-> "delete_vgsnap",
            clone |-> "clone_vgsnap_to_new_vg",
            restore |-> "restore_vg_from_vgsnap"]

ArrayCall(module, op) ==
    IF module = "vexata_snap" THEN SnapCalls[op] ELSE SgCalls[op]

\* the calls that change the array
MutatingCalls ==
    {ArrayCall(m, op) : m \in Modules,
                        op \in {"create", "delete", "clone", "restore"}}

\* the fail_json texts of vexata_snap
SnapMsgs == [list_parents |-> "Error while attempting to retrieve volumes.",
             no_parent |-> "Failed to find volume",
             list_snaps |-> "Error while attempting to retrieve snapshots.",
             create |-> "Snapshot create failed."]

\* the fail_json texts of vexata_sg
SgMsgs == [list_parents |->
               "Error while attempting to retrieve volume groups.",
           no_parent |-> "Failed to find volume group",
           list_snaps |->
               "Error while attempting to retrieve snapshot groups.",
           create |-> "Snapshot group create failed."]

VxMsg(module, what) ==
    IF module = "vexata_snap" THEN SnapMsgs[what] ELSE SgMsgs[what]

\* fail_json('...') with a positional argument: fail_json takes keyword
\* arguments only, so the call itself raises TypeError
FailJsonTypeError == "TypeError: fail_json() takes exactly 1 argument"

\* the arrays a behaviour starts from: a snapshot has a parent
InitialArrays ==
    {[EmptyArray EXCEPT !.parent = p, !.snap = s] :
        p \in BOOLEAN, s \in BOOLEAN} \ {[EmptyArray EXCEPT !.snap = TRUE]}

\* the tasks of a behaviour are tasks of one module: the two modules work
\* on different objects of the array
InitVexata ==
    /\ LuksIdle
    /\ array \in InitialArrays
    /\ vx \in {[VxIdle EXCEPT !.module = m] : m \in Modules}
    /\ hc = HcIdle

\* what a finished run leaves for the run after it to be compared with
VxSummary == [params |-> vx.params, check_mode |-> vx.check_mode,
              result |-> vx.result, callFailed |-> vx.callFailed]

\* main() is entered: AnsibleModule(...) has parsed the options and
\* get_array has returned the array
VxStartRun ==
    /\ vx.pc \in {"idle", "done"}
    /\ \E p \in VxParams, c \in BOOLEAN :
        vx' = [module |-> vx.module, params |-> p, check_mode |-> c,
               pc |-> "get_volume", volume |-> FALSE, snap |-> FALSE,
               calls |-> <<>>, result |-> VxInitialResult,
               callFailed |-> FALSE, start |-> array,
               prev |-> IF vx.pc = "done" THEN <<VxSummary>> ELSE <<>>]
    /\ UNCHANGED <<array, hc, sys, params, pc, result, cmds, toolFailed,
                   start, history>>

\* module.fail_json(msg=...)
VxFailJson(v, msg) ==
    [v EXCEPT !.pc = "done",
              !.result = [@ EXCEPT !.status = "failed", !.msg = msg]]

\* module.exit_json(changed=changed)
VxExitJson(v, changed) ==
    [v EXCEPT !.pc = "done",
              !.result = [@ EXCEPT !.status = "ok", !.changed = changed]]

\* an exception that leaves main()
VxUncaught(v, msg) ==
    [v EXCEPT !.pc = "done",
              !.result = [@ EXCEPT !.status = "exception", !.msg = msg]]

\* v with one more array call started
VxCalled(v, op) == [v EXCEPT !.calls = Append(@, ArrayCall(v.module, op))]

VxFrame == UNCHANGED <<hc, sys, params, pc, result, cmds, toolFailed, start,
                       history>>

\* get_volume / get_vg and the test of its result in main (filter() gives
\* a list, as in Python 2)
GetVolume ==
    /\ vx.pc = "get_volume"
    /\ LET v == VxCalled(vx, "list_parents")
       IN \/ \* the listing raises
             vx' = VxFailJson(v, VxMsg(vx.module, "list_parents"))
          \/ /\ ~array.parent
             /\ vx' = VxFailJson(v, VxMsg(vx.module, "no_parent"))
          \/ /\ array.parent
             /\ vx' = [v EXCEPT !.volume = TRUE, !.pc = "get_snap"]
    /\ UNCHANGED array
    /\ VxFrame

\* get_snap / get_sg
GetSnap ==
    /\ vx.pc = "get_snap"
    /\ LET v == VxCalled(vx, "list_snaps")
       IN \/ vx' = VxFailJson(v, VxMsg(vx.module, "list_snaps"))
          \/ vx' = [v EXCEPT !.snap = array.snap,
                             !.pc = "dispatch"]
    /\ UNCHANGED array
    /\ VxFrame

\* what a mutating array call does: it returns a value that counts as
\* true, it returns one that counts as false (None), or it raises
Outcomes == {"ok", "falsy", "raises"}

\* the result of a function that ends the run: the run as it ends, and
\* whether the array carried the change out
Ends(v, done) == [v |-> v, done |-> done]

\* v after its mutating call op was started and did not succeed
VxCallFailed(v, op) == [VxCalled(v, op) EXCEPT !.callFailed = TRUE]

\* create_snap that does not look at check mode
create_snap_unchecked(v, out) ==
    CASE out = "ok" -> Ends(VxExitJson(VxCalled(v, "create"), TRUE), TRUE)
      [] out = "falsy" ->
            Ends(VxFailJson(VxCallFailed(v, "create"),
                            VxMsg(v.module, "create")), FALSE)
      [] out = "raises" ->
            Ends(VxExitJson(VxCallFailed(v, "create"), FALSE), FALSE)

\* create_snap / create_sg: a false result is reported by fail_json (whose
\* SystemExit passes 'except Exception'); an exception of the call is
\* dropped by 'except Exception: pass' and the run exits with changed=False
create_snap(v, out) ==
    IF v.check_mode THEN Ends(VxExitJson(v, FALSE), FALSE)
    ELSE CASE out = "ok" ->
                 Ends(VxExitJson(VxCalled(v, "create"), TRUE), TRUE)
           [] out = "falsy" ->
                 Ends(VxFailJson(VxCallFailed(v, "create"),
                                 VxMsg(v.module, "create")), FALSE)
           [] out = "raises" ->
                 Ends(VxExitJson(VxCallFailed(v, "create"), FALSE), FALSE)

\* delete_snap / delete_sg, restore_snap / restore_sg (op names the call):
\* a false result raises Exception inside the try, and every exception is
\* dropped by 'except Exception: pass'
delete_or_restore(v, op, out) ==
    IF v.check_mode THEN Ends(VxExitJson(v, FALSE), FALSE)
    ELSE IF out = "ok"
         THEN Ends(VxExitJson(VxCalled(v, op), TRUE), TRUE)
         ELSE Ends(VxExitJson(VxCallFailed(v, op), FALSE), FALSE)

delete_snap(v, out) == delete_or_restore(v, "delete", out)

restore_snap(v, out) == delete_or_restore(v, "restore", out)

\* clone_snap / clone_sg: the target is tested before check mode
clone_snap(v, out) ==
    IF v.params.target \in {None, ""}
    THEN Ends(VxUncaught(v, FailJsonTypeError), FALSE)
    ELSE IF v.check_mode THEN Ends(VxExitJson(v, FALSE), FALSE)
    ELSE IF out = "ok"
         THEN Ends(VxExitJson(VxCalled(v, "clone"), TRUE), TRUE)
         ELSE Ends(VxExitJson(VxCallFailed(v, "clone"), FALSE), FALSE)

\* main: the if/elif chain on state and the snapshot found
Branch(v) ==
    CASE v.params.state = "present" /\ ~v.snap -> "create"
      [] v.params.state = "absent" /\ v.snap -> "delete"
      [] v.params.state = "clone" /\ v.snap -> "clone"
      [] v.params.state = "restore" /\ v.snap -> "restore"
      [] OTHER -> "exit"

\* main calls create_snap / create_sg
CreateSnap ==
    /\ vx.pc = "dispatch" /\ Branch(vx) = "create"
    /\ \E out \in Outcomes :
        LET r == create_snap(vx, out)
        IN /\ vx' = r.v
           /\ array' = IF r.done
                       THEN [array EXCEPT !.snap = TRUE]
                       ELSE array
    /\ VxFrame

\* main calls delete_snap / delete_sg
DeleteSnap ==
    /\ vx.pc = "dispatch" /\ Branch(vx) = "delete"
    /\ \E out \in Outcomes :
        LET r == delete_snap(vx, out)
        IN /\ vx' = r.v
           /\ array' = IF r.done
                       THEN [array EXCEPT !.snap = FALSE]
                       ELSE array
    /\ VxFrame

\* main calls clone_snap / clone_sg; the array has one volume of a name
CloneSnap ==
    /\ vx.pc = "dispatch" /\ Branch(vx) = "clone"
    /\ \E out \in Outcomes :
        LET r == clone_snap(vx, out)
        IN /\ r.done => vx.params.target \notin array.clones
           /\ vx' = r.v
           /\ array' = IF r.done
                       THEN [array EXCEPT !.clones =
                                              @ \cup {vx.params.target}]
                       ELSE array
    /\ VxFrame

\* main calls restore_snap / restore_sg
RestoreSnap ==
    /\ vx.pc = "dispatch" /\ Branch(vx) = "restore"
    /\ \E out \in Outcomes :
        LET r == restore_snap(vx, out)
        IN /\ vx' = r.v
           /\ array' = IF r.done
                       THEN [array EXCEPT !.restored = TRUE]
                       ELSE array
    /\ VxFrame

\* main, else: module.exit_json(changed=False)
MainElse ==
    /\ vx.pc = "dispatch" /\ Branch(vx) = "exit"
    /\ vx' = VxExitJson(vx, FALSE)
    /\ UNCHANGED array
    /\ VxFrame

\* runs of vexata_snap and vexata_sg, back to back
NextVexata ==
    \/ VxStartRun
    \/ GetVolume
    \/ GetSnap
    \/ CreateSnap
    \/ DeleteSnap
    \/ CloneSnap
    \/ RestoreSnap
    \/ MainElse

SpecVexata == InitVexata /\ [][NextVexata]_vars

(* ------------------------- hcloud inventory --------------------------- *)

MaxServers == 2
ServerNames == {"srv" \o ToString(i) : i \in 1..MaxServers}
Locations == {"nbg1", "fsn1"}
ServerTypes == {"cx11", "cx21"}
\* image.os_flavor of the images
Flavors == {"ubuntu", "debian"}

\* a server of the API: server.name, server.datacenter.location.name,
\* server.server_type.name, and server.image.os_flavor or None for a server
\* without image (server.image is None)
Servers == [name : ServerNames, location : Locations, type : ServerTypes,
            image : Flavors \cup {None}]

\* the answers of client.servers.get_all(): servers with distinct names
ServerLists ==
    {<<>>} \cup {<<a>> : a \in Servers}
           \cup {p \in Servers \X Servers : p[1].name # p[2].name}

\* the options locations, types and images of the configuration file
HcOptions == [locations : SUBSET Locations, types : SUBSET ServerTypes,
              images : SUBSET Flavors]

HcFrame == UNCHANGED <<array, vx, sys, params, pc, result, cmds, toolFailed,
                       start, history>>

\* parse up to _get_servers: the options are read, the API lists servers
\* (an InventoryModule parses its source once)
GetServers ==
    /\ hc.pc = "idle"
    /\ \E l \in ServerLists, o \in HcOptions :
        hc' = [HcIdle EXCEPT !.pc = "filter", !.api = l, !.servers = l,
                             !.options = o]
    /\ HcFrame

KeepLocation(o, server) == server.location \in o.locations
KeepType(o, server) == server.type \in o.types
\* 'server.image is not None and server.image.os_flavor in images'
KeepImage(o, server) == server.image # None /\ server.image \in o.images

\* the passes of _filter_servers: each is skipped for an empty option,
\* else it keeps the servers that pass its test, in their order
FilterLocations(o, servers) ==
    LET Keep(server) == KeepLocation(o, server)
    IN IF o.locations = {} THEN servers ELSE SelectSeq(servers, Keep)

FilterTypes(o, servers) ==
    LET Keep(server) == KeepType(o, server)
    IN IF o.types = {} THEN servers ELSE SelectSeq(servers, Keep)

FilterImages(o, servers) ==
    LET Keep(server) == KeepImage(o, server)
    IN IF o.images = {} THEN servers ELSE SelectSeq(servers, Keep)

\* InventoryModule._filter_servers
filter_servers(o, servers) ==
    FilterImages(o, FilterTypes(o, FilterLocations(o, servers)))

\* parse: self._filter_servers()
FilterServers ==
    /\ hc.pc = "filter"
    /\ hc' = [hc EXCEPT !.servers = filter_servers(hc.options, hc.servers),
                        !.pc = "add"]
    /\ HcFrame

\* parse: one turn of 'for server in self.servers' (hc.servers holds the
\* servers still to come); server.image.os_flavor raises AttributeError for
\* a server without image, after the first two add_host calls
AddHost ==
    /\ hc.pc = "add" /\ hc.servers # <<>>
    /\ LET server == Head(hc.servers)
           first == {<<"location_" \o server.location, server.name>>}
       IN IF server.image = None
          THEN hc' = [hc EXCEPT !.hosts = @ \cup {server.name},
                                !.groups = @ \cup first,
                                !.status = "exception",
                                !.pc = "done"]
          ELSE hc' = [hc EXCEPT
                        !.hosts = @ \cup {server.name},
                        !.groups = @ \cup first \cup
                            {<<"image_" \o server.image, server.name>>,
                             <<"server_type_" \o server.type, server.name>>},
                        !.servers = Tail(@)]
    /\ HcFrame

\* parse returns after the last server
ParseReturns ==
    /\ hc.pc = "add" /\ hc.servers = <<>>
    /\ hc' = [hc EXCEPT !.status = "ok", !.pc = "done"]
    /\ HcFrame

NextHcloud == GetServers \/ FilterServers \/ AddHost \/ ParseReturns

SpecHcloud == Init /\ [][NextHcloud]_vars

(* ------------------------------ properties ---------------------------- *)

Done == pc = "done"
Succeeded == pc = "done" /\ result.status = "ok"
InRun == pc \notin {"idle"}
ConflictMsg == "already opened under different name"
AddKeyContradiction == "Contradiction in setup: add a key to absent LUKS"

\* the run right before the current one in the play
Prev == history[Len(history)]
\* the current run repeats the parameters of the run right before it
Repeats == history # <<>> /\ Prev.params = params

FormatCmd(d) == Cmd("luksFormat", d, None)
OpenCmd(d, n) == Cmd("open", d, n)
CloseCmd(n) == Cmd("close", None, n)
WipeCmd(d) == Cmd("wipefs", d, None)
AddKeyCmd(d) == Cmd("luksAddKey", d, None)

IsPrefix(s, t) == Len(s) <= Len(t) /\ \A i \in 1..Len(s) : s[i] = t[i]

\* C1: a successful run with state=present, device=D, keyfile=K and no other
\* key option on an unformatted D starts exactly the format tool on D and
\* reports changed=true; the run that follows it with the same parameters
\* starts no mutating command, succeeds and reports changed=false.
C1_PresentFormatsOnce ==
    (InRun /\ params.state = "present" /\ params.device # None
           /\ params.keyfile # None /\ params.new_keyfile = None
           /\ params.remove_keyfile = None) =>
        /\ (Succeeded /\ ~start.formatted[params.device]) =>
              /\ cmds = <<FormatCmd(params.device)>>
              /\ result.changed
              /\ formatted[params.device]
        /\ (Repeats /\ ~Prev.start.formatted[params.device]) =>
              /\ cmds = <<>>
              /\ Done => (result.status = "ok" /\ ~result.changed)

C1_Witness ==
    /\ Succeeded /\ params.state = "present" /\ params.device # None
    /\ params.keyfile # None
    /\ Repeats /\ ~Prev.start.formatted[params.device]
    /\ Prev.changed /\ Prev.cmds = <<FormatCmd(params.device)>>
    /\ ~result.changed /\ cmds = <<>>

C3_NameConflictFaults ==
    (InRun /\ params.state = "opened" /\ params.device # None
           /\ params.name # None
           /\ start.mapname[params.device] \notin {None, params.name}) =>
        /\ cmds = <<>>
        /\ (Done /\ ~toolFailed) =>
              (result.status = "failed" /\ result.msg = ConflictMsg)

C3_Witness ==
    /\ Done /\ params.state = "opened" /\ params.device # None
    /\ params.name # None
    /\ start.mapname[params.device] \notin {None, params.name}
    /\ result.status = "failed" /\ result.msg = ConflictMsg
    /\ cmds = <<>>

\* C4: a run with state=absent and device=D on a formatted and open D starts
\* the close tool on the mapping of D first and the erase tool on D after
\* it, and reports changed=true when it succeeds; the run that follows with
\* the same parameters starts no mutating command and reports changed=false.
C4_AbsentClosesThenWipes ==
    (InRun /\ params.state = "absent" /\ params.device # None) =>
        /\ (start.formatted[params.device]
               /\ start.mapname[params.device] # None) =>
              /\ IsPrefix(cmds, <<CloseCmd(start.mapname[params.device]),
                                  WipeCmd(params.device)>>)
              /\ Succeeded =>
                    /\ Len(cmds) = 2
                    /\ result.changed
                    /\ ~formatted[params.device]
                    /\ mapname[params.device] = None
        /\ (Repeats /\ Prev.start.formatted[params.device]
                    /\ Prev.start.mapname[params.device] # None) =>
              /\ cmds = <<>>
              /\ Done => (result.status = "ok" /\ ~result.changed)

C4_Witness ==
    /\ Succeeded /\ params.state = "absent" /\ params.device # None
    /\ Repeats /\ Prev.start.formatted[params.device]
    /\ Prev.start.mapname[params.device] # None
    /\ Prev.cmds = <<CloseCmd(Prev.start.mapname[params.device]),
                     WipeCmd(params.device)>>
    /\ Prev.changed /\ ~result.changed /\ cmds = <<>>

RemoveKeyContradiction ==
    "Contradiction in setup: remove a key from absent LUKS"

\* C5 as claimed: every run with new_keyfile set and state=absent, whatever
\* the other parameters, ends in a contradiction fault without having
\* started a mutating command.
C5_AsClaimed ==
    (Done /\ params.state = "absent" /\ params.new_keyfile # None) =>
        /\ result.status = "failed"
        /\ result.msg \in {AddKeyContradiction, RemoveKeyContradiction}
        /\ cmds = <<>>

\* C5, amended: a run with new_keyfile set and state=absent in which device
\* is supplied together with keyfile or remove_keyfile starts no mutating
\* command and ends in a contradiction fault (the add-key one when keyfile
\* is supplied).
C5_ContradictionFaults ==
    (InRun /\ params.state = "absent" /\ params.new_keyfile # None
           /\ params.device # None
           /\ (params.keyfile # None \/ params.remove_keyfile # None)) =>
        /\ cmds = <<>>
        /\ Done =>
              /\ result.status = "failed"
              /\ result.msg = IF params.keyfile # None
                              THEN AddKeyContradiction
                              ELSE RemoveKeyContradiction
              /\ formatted = start.formatted
              /\ mapname = start.mapname

C5_Witness ==
    /\ Done /\ params.state = "absent" /\ params.new_keyfile # None
    /\ params.device # None /\ params.keyfile # None
    /\ start.formatted[params.device]
    /\ start.mapname[params.device] # None
    /\ result.status = "failed" /\ result.msg = AddKeyContradiction
    /\ cmds = <<>>

\* C6: a run in which an external call failed in a way the probe or action
\* treats as an error ends with fail_json, never with an uncaught exception
\* and never with a success result.
C6_ToolFailureIsStructuredFault ==
    (Done /\ toolFailed) => result.status = "failed"

C8_OpenedFormatsThenOpens ==
    (/\ Succeeded /\ params.state = "opened" /\ params.device # None
     /\ params.keyfile # None /\ ~start.formatted[params.device]) =>
        /\ Len(cmds) >= 2
        /\ cmds[1] = FormatCmd(params.device)
        /\ cmds[2] = OpenCmd(params.device, result.name)
        /\ formatted[params.device]
        /\ result.name # None
        /\ mapname[params.device] = result.name
        /\ result.changed
        /\ params.new_keyfile # None =>
              (Len(cmds) >= 3 /\ cmds[3] = AddKeyCmd(params.device))

C8_Witness ==
    /\ Succeeded /\ params.state = "opened" /\ params.device # None
    /\ params.keyfile # None /\ params.new_keyfile # None
    /\ params.name = None
    /\ ~start.formatted[params.device]
    /\ cmds = <<FormatCmd(params.device),
                OpenCmd(params.device, "luks-" \o uuid[params.device]),
                AddKeyCmd(params.device)>>
    /\ mapname[params.device] = result.name

\* C9: after every successful run with state=closed, device=D and keyfile
\* (with or without name), D is formatted and has no open mapping.
C9_ClosedLeavesDeviceClosed ==
    (Succeeded /\ params.state = "closed" /\ params.device # None
               /\ params.keyfile # None) =>
        /\ formatted[params.device]
        /\ mapname[params.device] = None

\* C10: a successful run with state=absent and only name=N, N the open
\* mapping of a formatted device D, leaves D unformatted and reports
\* changed=true.
C10_AbsentByNameRemoves ==
    (Succeeded /\ params.state = "absent" /\ params.device = None
               /\ params.name # None /\ params.keyfile = None
               /\ params.new_keyfile = None
               /\ params.remove_keyfile = None) =>
        \A d \in Devices :
            (start.mapname[d] = params.name /\ start.formatted[d]) =>
                (~formatted[d] /\ result.changed)


\* the tools of the commands started so far in the run
Tools == {cmds[i].tool : i \in 1..Len(cmds)}

\* C11: a successful run with state=opened on a device D that is open under
\* N, with name omitted or equal to N, reports name=N whichever of add-key
\* and remove-key fire, and never starts the open tool.
C11_AlreadyOpenReportsName ==
    (InRun /\ params.state = "opened" /\ params.device # None
           /\ start.mapname[params.device] # None
           /\ params.name \in {None, start.mapname[params.device]}) =>
        /\ "open" \notin Tools
        /\ Succeeded =>
              /\ result.name = start.mapname[params.device]
              /\ mapname[params.device] = result.name

C11_Witness ==
    /\ Succeeded /\ params.state = "opened" /\ params.device # None
    /\ params.name = None
    /\ start.mapname[params.device] # None
    /\ result.name = start.mapname[params.device]
    /\ Tools = {"luksAddKey", "luksRemoveKey"}


\* the errors of the tools that the six actions start
CommandErrors == {ErrCreate, ErrOpen, ErrClose, ErrWipe, ErrAddKey,
                  ErrRemoveKey}
\* the errors that only an action can meet (the mapping listing is also
\* read by the conditions)
ActionErrors == CommandErrors \cup {ErrGenerateName}

\* command i of the run returned 0: it is not the command that failed
Completed(i) ==
    \/ i < Len(cmds)
    \/ \A e \in CommandErrors : result.msg # LuksDeviceError(e)

\* C12: when an action fails, the run ends at once in a fault (no later
\* action is started) and the actions that completed before keep their
\* effect; with state=opened on an unformatted device, when format succeeds
\* and the open (or the UUID probe) fails, the run faults and the device
\* stays formatted.
C12_FailureKeepsCompletedActions ==
    (InRun /\ toolFailed) =>
        /\ pc = "done"
        /\ result.status # "ok"
        /\ \A e \in ActionErrors :
              result.msg \in {e, LuksDeviceError(e)} =>
                  (result.status = "failed" /\ result.msg = LuksDeviceError(e))
        /\ \A i \in 1..Len(cmds) :
              Completed(i) =>
                  /\ cmds[i].tool = "luksFormat" => formatted[params.device]
                  /\ cmds[i].tool = "open" =>
                        mapname[params.device] = cmds[i].name
                  /\ cmds[i].tool = "close" => cmds[i].name \notin ActiveNames
                  /\ cmds[i].tool = "luksAddKey" =>
                        params.new_keyfile \in keys[params.device]
        /\ (/\ params.state = "opened"
            /\ params.device # None
            /\ ~start.formatted[params.device]
            /\ result.msg \in {LuksDeviceError(ErrOpen),
                               LuksDeviceError(ErrGenerateName)}) =>
              /\ formatted[params.device]
              /\ keys[params.device] = {params.keyfile}
              /\ mapname[params.device] = None
              /\ cmds[1] = FormatCmd(params.device)
              /\ Tools \subseteq {"luksFormat", "open"}

C12_Witness ==
    /\ Done /\ toolFailed /\ params.state = "opened"
    /\ params.device # None /\ params.new_keyfile # None
    /\ ~start.formatted[params.device]
    /\ result.status = "failed"
    /\ result.msg = LuksDeviceError(ErrOpen)
    /\ cmds = <<FormatCmd(params.device),
                OpenCmd(params.device, "luks-" \o uuid[params.device])>>
    /\ formatted[params.device]


\* the run is given one identifier, and no mapping was live for it at start
NoLiveMapping ==
    \/ /\ params.name # None /\ params.device = None
       /\ \A d \in Devices : start.mapname[d] # params.name
    \/ /\ params.device # None /\ params.name = None
       /\ start.mapname[params.device] = None

\* C13: a run with state=closed whose identifier (name alone, or device
\* alone) has no live mapping starts no close; when no tool fails it
\* succeeds, and it reports a change exactly when format, add-key or
\* remove-key fired.
C13_NoMappingIsNoFault ==
    (InRun /\ params.state = "closed" /\ NoLiveMapping) =>
        /\ "close" \notin Tools
        /\ mapname = start.mapname
        /\ (Done /\ ~toolFailed) =>
              /\ result.status = "ok"
              /\ result.changed <=>
                    Tools \cap {"luksFormat", "luksAddKey", "luksRemoveKey"} # {}

C13_Witness ==
    /\ Succeeded /\ params.state = "closed"
    /\ params.name # None /\ params.device = None
    /\ \A d \in Devices : start.mapname[d] # params.name
    /\ ActiveNames # {}
    /\ ~result.changed /\ cmds = <<>>

\* C13, device alone: the other actions still fire and report their change
C13_WitnessByDevice ==
    /\ Succeeded /\ params.state = "closed"
    /\ params.device # None /\ params.name = None
    /\ start.mapname[params.device] = None
    /\ result.changed /\ Tools = {"luksAddKey"}


\* the tools of the run's commands, in the order they were started
ToolSeq == [i \in 1..Len(cmds) |-> cmds[i].tool]

\* the order of the blocks of run_module; destroy closes, then wipes
ActionOrder == <<"luksFormat", "open", "close", "luksAddKey", "luksRemoveKey",
                 "close", "wipefs">>

RECURSIVE IsSubseq(_, _)
\* s is t with some elements left out
IsSubseq(s, t) ==
    IF s = <<>> THEN TRUE
    ELSE IF t = <<>> THEN FALSE
    ELSE IF Head(s) = Head(t) THEN IsSubseq(Tail(s), Tail(t))
    ELSE IsSubseq(s, Tail(t))

\* how many commands of the run started tool t
Started(t) == Cardinality({i \in 1..Len(cmds) : cmds[i].tool = t})

\* C14: in every run the mutating commands started form a subsequence of
\* format, open, close, add-key, remove-key, destroy (close, then wipe), and
\* each of the format, open, add-key, remove-key and wipe tools is started
\* at most once.
C14_FixedOrderNoRetry ==
    /\ IsSubseq(ToolSeq, ActionOrder)
    /\ \A t \in {"luksFormat", "open", "luksAddKey", "luksRemoveKey", "wipefs"} :
          Started(t) <= 1

C14_Witness ==
    /\ Succeeded
    /\ ToolSeq = <<"luksFormat", "open", "luksAddKey", "luksRemoveKey">>


\* C15: in every successful run changed=true holds exactly when one of the
\* six actions was executed (it started a command); so a run that reports
\* changed=false left the format status, the mappings and the key slots as
\* they were at its start.
C15_ChangedIffActionRan ==
    Succeeded =>
        /\ result.changed <=> cmds # <<>>
        /\ ~result.changed => Snapshot = start

C15_Witness ==
    /\ Succeeded /\ ~result.changed /\ cmds = <<>>
    /\ params.state = "opened" /\ params.device # None
    /\ params.keyfile # None
    /\ start.mapname[params.device] # None
    /\ Snapshot = start

\* C15, the other direction: a run that executed an action reports the change
C15_WitnessChanged ==
    /\ Succeeded /\ result.changed
    /\ ToolSeq = <<"close">>
    /\ Snapshot # start


\* the run went through the "luks close" block of run_module
PastCloseBlock ==
    \/ pc \in {"add_key", "remove_key", "remove", "exit"}
    \/ Succeeded
    \/ "close" \in Tools

\* C16: with state=closed and both device and name supplied, the device
\* probe decides: the close action fires exactly when the device has a live
\* mapping, whatever the name probe returns.
C16_DeviceProbeDecidesClose ==
    (/\ InRun /\ PastCloseBlock
     /\ params.state = "closed"
     /\ params.device # None /\ params.name # None) =>
        ("close" \in Tools <=> start.mapname[params.device] # None)


\* C17: every run with device and remove_keyfile supplied and state=absent
\* ends in a contradiction fault that is raised before the destroy step: no
\* command is started, so the mapping of the device is not closed and its
\* signature is not wiped.
C17_RemoveKeyFromAbsentFaults ==
    (/\ InRun /\ params.state = "absent"
     /\ params.device # None /\ params.remove_keyfile # None) =>
        /\ cmds = <<>>
        /\ Snapshot = start
        /\ pc \notin {"remove", "exit"}
        /\ Done =>
              /\ result.status = "failed"
              /\ result.msg =
                    IF params.keyfile # None /\ params.new_keyfile # None
                    THEN AddKeyContradiction
                    ELSE RemoveKeyContradiction

C17_Witness ==
    /\ Done /\ params.state = "absent"
    /\ params.device # None /\ params.remove_keyfile # None
    /\ params.new_keyfile = None
    /\ result.status = "failed"
    /\ result.msg = RemoveKeyContradiction
    /\ formatted[params.device]
    /\ mapname[params.device] # None


\* the run went through the "luks add key" block of run_module
PastAddKeyBlock == pc \in {"remove_key", "remove", "exit"} \/ Succeeded

\* C18: for state in {present, opened, closed} with device, keyfile and
\* new_keyfile supplied, every run that reaches the add-key step starts the
\* add-key tool, whether or not the key is registered already; so every
\* such successful run reports changed=true, also when the device held the
\* key at the start of the run.
C18_AddKeyNotIdempotent ==
    (/\ InRun /\ params.state # "absent"
     /\ params.device # None /\ params.keyfile # None
     /\ params.new_keyfile # None) =>
        /\ PastAddKeyBlock => Started("luksAddKey") = 1
        /\ Succeeded => result.changed
        /\ "luksAddKey" \in Tools => PastAddKeyBlock \/ toolFailed

C18_Witness ==
    /\ Succeeded /\ params.state = "present"
    /\ params.device # None /\ params.keyfile # None
    /\ params.new_keyfile \in start.keys[params.device]
    /\ ToolSeq = <<"luksAddKey">>
    /\ result.changed
    /\ Snapshot = start


\* the run went through the "luks remove key" block of run_module
PastRemoveKeyBlock == pc \in {"remove", "exit"} \/ Succeeded

\* C19: the remove-key action is gated only on device and remove_keyfile
\* being supplied and state # absent, however many keys remain: a run that
\* passed the remove-key step started luksRemoveKey exactly under that gate,
\* and a successful removal of the only key leaves the container without
\* keys and reports changed=true.
C19_RemoveKeyUnguarded ==
    /\ (InRun /\ PastRemoveKeyBlock) =>
          ("luksRemoveKey" \in Tools <=>
              /\ params.device # None
              /\ params.remove_keyfile # None
              /\ params.state # "absent")
    /\ (/\ Succeeded /\ "luksRemoveKey" \in Tools
        /\ start.keys[params.device] \subseteq {params.remove_keyfile}) =>
          /\ keys[params.device] = {}
          /\ result.changed

C19_Witness ==
    /\ Succeeded /\ params.device # None
    /\ params.new_keyfile = None
    /\ start.formatted[params.device]
    /\ start.keys[params.device] = {params.remove_keyfile}
    /\ ToolSeq = <<"luksRemoveKey">>
    /\ formatted[params.device]
    /\ keys[params.device] = {}
    /\ result.changed


\* the open action was executed: it started the open tool, or it failed
\* before that on the UUID probe for the generated name
OpenFired ==
    \/ "open" \in Tools
    \/ Done /\ result.msg = LuksDeviceError(ErrGenerateName)

\* the run went through the "luks open" block of run_module
PastOpenBlock ==
    \/ pc \in {"close", "add_key", "remove_key", "remove", "exit"}
    \/ Succeeded
    \/ OpenFired

\* C20: the open action fires exactly when device and keyfile are supplied,
\* state=opened and the device has no live mapping; so after every
\* successful run with state=opened, device=D and keyfile supplied, D has a
\* live mapping and the reported name is the name of that mapping.
C20_OpenIffClosedAndKeyed ==
    /\ (InRun /\ PastOpenBlock) =>
          (OpenFired <=>
              /\ params.device # None
              /\ params.keyfile # None
              /\ params.state = "opened"
              /\ start.mapname[params.device] = None)
    /\ (/\ Succeeded /\ params.state = "opened"
        /\ params.device # None /\ params.keyfile # None) =>
          /\ mapname[params.device] # None
          /\ result.name = mapname[params.device]

C20_Witness ==
    /\ Succeeded /\ params.state = "opened"
    /\ params.device # None /\ params.keyfile # None
    /\ params.name # None
    /\ start.formatted[params.device]
    /\ start.mapname[params.device] = None
    /\ ToolSeq = <<"open">>
    /\ mapname[params.device] = params.name
    /\ result.name = params.name


\* C21: in the destroy action wipefs is started only when the device has no
\* live mapping: with nothing open it is the only command, with a mapping
\* open it follows the successful close of that mapping; when the close
\* fails the run faults, wipefs is not started and the device stays
\* formatted (and mapped).
C21_WipeOnlyWhenUnmapped ==
    (InRun /\ params.device # None) =>
        /\ "wipefs" \in Tools =>
              /\ params.state = "absent"
              /\ mapname[params.device] = None
              /\ cmds = IF start.mapname[params.device] = None
                        THEN <<WipeCmd(params.device)>>
                        ELSE <<CloseCmd(start.mapname[params.device]),
                               WipeCmd(params.device)>>
        /\ (/\ Done /\ params.state = "absent"
            /\ result.msg = LuksDeviceError(ErrClose)) =>
              /\ result.status = "failed"
              /\ cmds = <<CloseCmd(start.mapname[params.device])>>
              /\ formatted[params.device]
              /\ mapname[params.device] = start.mapname[params.device]
              /\ mapname[params.device] # None

C21_Witness ==
    /\ Done /\ params.state = "absent" /\ params.device # None
    /\ result.status = "failed"
    /\ result.msg = LuksDeviceError(ErrClose)
    /\ start.mapname[params.device] # None
    /\ "wipefs" \notin Tools
    /\ formatted[params.device]

\* C21, nothing open: the wipe proceeds directly
C21_WitnessDirectWipe ==
    /\ Succeeded /\ params.state = "absent" /\ params.device # None
    /\ start.formatted[params.device]
    /\ start.mapname[params.device] = None
    /\ cmds = <<WipeCmd(params.device)>>
    /\ ~formatted[params.device]


\* C22: when the open action fires without a supplied name, the UUID probe
\* runs after the format of the same run (if any), the open tool is started
\* with exactly 'luks-' + the UUID of the device, and when the UUID probe
\* fails or yields no UUID the run faults and the open tool is never
\* started.
C22_OpenNameIsUuidOrFault ==
    (InRun /\ params.name = None /\ OpenFired) =>
        /\ "open" \in Tools =>
              /\ uuid[params.device] # ""
              /\ \E i \in 1..Len(cmds) :
                    /\ cmds[i] = OpenCmd(params.device,
                                         "luks-" \o uuid[params.device])
                    /\ \A j \in 1..Len(cmds) :
                          cmds[j].tool = "luksFormat" => j < i
        /\ result.msg = LuksDeviceError(ErrGenerateName) =>
              /\ result.status = "failed"
              /\ "open" \notin Tools


\* C23: whenever the close tool is started (by the close action or inside
\* destroy), it is started with the name of a mapping that is live at that
\* moment, never with None and never with a name that is not mapped. (No
\* command of a run changes a mapping before its close, so the live
\* mappings at that moment are those of the start of the run.)
C23_CloseNamesLiveMapping ==
    InRun =>
        \A i \in 1..Len(cmds) :
            cmds[i].tool = "close" =>
                /\ cmds[i].name # None
                /\ \E d \in Devices : start.mapname[d] = cmds[i].name


(* ---------------- properties of vexata_snap, vexata_sg ---------------- *)

VxInRun == vx.pc # "idle"
VxDone == vx.pc = "done"
VxOk == vx.pc = "done" /\ vx.result.status = "ok"

\* the mutating calls the run started, in order
RECURSIVE MutatingOf(_)
MutatingOf(calls) ==
    IF calls = <<>> THEN <<>>
    ELSE IF Head(calls) \in MutatingCalls
         THEN <<Head(calls)>> \o MutatingOf(Tail(calls))
         ELSE MutatingOf(Tail(calls))

Mutating == MutatingOf(vx.calls)

\* the mutating call that the claim's table gives for the state of the task
\* and the existence of the snapshot at the start of the run, if any
TableOp ==
    CASE vx.params.state = "present" /\ ~vx.start.snap -> "create"
      [] vx.params.state = "absent" /\ vx.start.snap -> "delete"
      [] vx.params.state = "clone" /\ vx.start.snap -> "clone"
      [] vx.params.state = "restore" /\ vx.start.snap -> "restore"
      [] OTHER -> None

\* the run ended in get_volume / get_vg, in the test of its result, or in
\* get_snap / get_sg
VxLookupFailed ==
    /\ vx.result.status = "failed"
    /\ \E what \in {"list_parents", "no_parent", "list_snaps"} :
          vx.result.msg = VxMsg(vx.module, what)

\* the run before the current one had the same options and ended ok
VxRepeats ==
    /\ vx.prev # <<>>
    /\ vx.prev[1].params = vx.params
    /\ vx.prev[1].check_mode = vx.check_mode
    /\ vx.prev[1].result.status = "ok"

\* the part of C24 on single runs: at most one mutating call, the one of
\* the table; none and changed=false outside the table
C24_OneCallByTable ==
    VxInRun =>
        /\ Len(Mutating) <= 1
        /\ Mutating # <<>> =>
              /\ TableOp # None
              /\ Mutating = <<ArrayCall(vx.module, TableOp)>>
        /\ (VxDone /\ TableOp = None /\ ~VxLookupFailed) =>
              /\ VxOk
              /\ ~vx.result.changed
              /\ array = vx.start
        /\ (VxOk /\ vx.result.changed) => Len(Mutating) = 1

\* C24: each run of vexata_snap / vexata_sg starts at most one mutating
\* array call, chosen by (state, snapshot exists): present & missing ->
\* create, absent & exists -> delete, clone & exists -> clone, restore &
\* exists -> restore; in every other combination there is no mutating call
\* and changed=false; so state=present after state=present, and
\* state=absent after state=absent, report changed=false on the second run.
C24_OneCallAndIdempotent ==
    /\ C24_OneCallByTable
    /\ (VxOk /\ VxRepeats /\ vx.params.state \in {"present", "absent"}) =>
          ~vx.result.changed

\* C25: a mutating array call that fails (it raises, or returns a failure
\* value) makes the run a failed run; the module never exits successfully
\* with changed=false when the change was attempted and did not happen.
C25_FailedCallIsReported ==
    (VxDone /\ vx.callFailed) =>
        /\ vx.result.status = "failed"
        /\ ~(vx.result.status = "ok" /\ ~vx.result.changed)

\* C26: in check mode no mutating array call is started, the array is left
\* as it was and changed is never true (a run that exits reports
\* changed=false), for every state and every existence of the snapshot; and
\* a run whose parent volume / volume group is not found fails, for every
\* state, after the listing of the parents and before any snapshot call.
C26_CheckModeAndMissingParent ==
    VxInRun =>
        /\ vx.check_mode =>
              /\ Mutating = <<>>
              /\ ~vx.result.changed
              /\ array = vx.start
              /\ (VxDone /\ ~VxLookupFailed
                         /\ ~(vx.params.state = "clone" /\ vx.start.snap
                              /\ vx.params.target \in {None, ""})) =>
                    VxOk
        /\ (VxDone /\ ~vx.start.parent) =>
              /\ vx.result.status \in {"failed"}
              /\ vx.calls = <<ArrayCall(vx.module, "list_parents")>>
              /\ array = vx.start

C26_Witness ==
    /\ VxOk /\ vx.check_mode
    /\ vx.params.state = "present"
    /\ vx.start.parent /\ ~vx.start.snap
    /\ ~vx.result.changed
    /\ vx.calls = <<ArrayCall(vx.module, "list_parents"),
                    ArrayCall(vx.module, "list_snaps")>>
    /\ ~array.snap

\* C26, the parent is missing: the run fails before any snapshot call
C26_WitnessNoParent ==
    /\ VxDone /\ ~vx.start.parent
    /\ vx.params.state = "restore"
    /\ vx.result.status = "failed"
    /\ vx.result.msg = VxMsg(vx.module, "no_parent")
    /\ Len(vx.calls) = 1


(* ---------------------- properties of hcloud -------------------------- *)

\* the servers of the API that satisfy every non-empty filter
Admitted ==
    {hc.api[i] : i \in {j \in 1..Len(hc.api) :
        /\ hc.options.locations # {} =>
              hc.api[j].location \in hc.options.locations
        /\ hc.options.types # {} => hc.api[j].type \in hc.options.types
        /\ hc.options.images # {} => hc.api[j].image \in hc.options.images}}

\* C27: the hosts added to the inventory are exactly the servers of the API
\* that satisfy every non-empty filter (location in locations, type in
\* types, os_flavor in images), and each of them is added to the groups
\* location_<location>, image_<os_flavor> and server_type_<type>, also when
\* the server has no image.
C27_HostsAreAdmittedServers ==
    hc.pc = "done" =>
        /\ hc.hosts = {server.name : server \in Admitted}
        /\ \A server \in Admitted :
              /\ <<"location_" \o server.location, server.name>> \in hc.groups
              /\ <<"server_type_" \o server.type, server.name>> \in hc.groups
              /\ server.image # None =>
                    <<"image_" \o server.image, server.name>> \in hc.groups

====
